---- MODULE Spec2Model ----
(***************************************************************************)
(* pay4: the split computation of Application/pay4/services.py.            *)
(*                                                                         *)
(* compute_split(items, selections, tax_rate, tip_rate) is a pure          *)
(* function.  The state machine draws one call's arguments in Init and     *)
(* the action ComputeSplit runs the call to its return, leaving the        *)
(* function's locals and its returned mapping in the state.                *)
(*                                                                         *)
(* Decimal values.  A Decimal amount is held as an integer number of       *)
(* 1/Scale currency units (four decimal places).  Sums, products with an   *)
(* integer and total_price / quantity are exact in that representation     *)
(* for the quantities drawn here (the divisors 1 and 2 and their           *)
(* negations), as they are in Python, whose context keeps 28 significant   *)
(* digits.  The one quotient that does not terminate, sub_cents / total    *)
(* in the proportional allocation, is computed digit by digit to the       *)
(* context precision, as decimal does.                                     *)
(***************************************************************************)
EXTENDS Integers, Sequences, FiniteSets, TLC

(***************************************************************************)
(* Bounds and input domains                                                *)
(***************************************************************************)
\* Longest selection list drawn.
MaxSels == 3

\* Most POST requests of the selection forms in one run.
MaxSubmits == 3

\* User identifiers, in the order in which a call's selections introduce
\* them: the function only compares identifiers and keeps them in order of
\* first appearance, so every selection list is one of these up to renaming.
\* The names are chosen so that this order is not the alphabetical one.
UserNames == <<"b", "a", "c">>

\* Rates as the callers pass them (floats with at most four decimals), in
\* 1/Scale units: 0, 0.0925, 0.18 and 0.5.
PlainRatePairs == {<<0, 5000>>, <<5000, 1800>>}
OddRatePairs == {<<925, 5000>>}

\* Well-formed receipts: one or two items of price 0.01 or 0.27 and
\* quantity 1 or 2, selections of 0 or 1 units of item 1 or 2 (<<price in
\* cents, quantity>> and <<item id, quantity selected>>).
PlainItemKinds == {1, 27} \X {1, 2}
PlainSelKinds == {1, 2} \X {0, 1}

\* Degenerate receipts: no item or one item, of price 0 or 0.27 and of
\* quantity -1, 0 or 1; selections of -1 units or without a quantity, of
\* item 1 or of the unknown item 2.
OddItemKinds == {0, 27} \X {-1, 0, 1}
OddSelQtys == {-1}

(***************************************************************************)
(* Decimal arithmetic                                                      *)
(***************************************************************************)
\* Units per currency unit of the fixed-point representation.
Scale == 10000

\* Significant digits of Python's default decimal context.
DecPrec == 28

Abs(n) == IF n < 0 THEN -n ELSE n

Sign(n) == IF n < 0 THEN -1 ELSE 1

\* n / d rounded to an integer, ties away from zero (ROUND_HALF_UP); d > 0.
RoundHalfUp(n, d) ==
    LET q == Abs(n) \div d
        r == Abs(n) % d
    IN  Sign(n) * (IF 2 * r >= d THEN q + 1 ELSE q)

\* n / d rounded to an integer, ties to even (ROUND_HALF_EVEN, the default
\* rounding of the decimal context); d > 0.
RoundHalfEven(n, d) ==
    LET q == Abs(n) \div d
        r == Abs(n) % d
    IN  Sign(n) * (IF 2 * r > d \/ (2 * r = d /\ q % 2 = 1) THEN q + 1 ELSE q)

\* a / b where the quotient is exact in 1/Scale units.
ExactDiv(a, b) == Sign(a) * Sign(b) * (Abs(a) \div Abs(b))

\* The decimal digits of a natural number, most significant first.
RECURSIVE NatDigits(_)
NatDigits(n) == IF n = 0 THEN <<>> ELSE Append(NatDigits(n \div 10), n % 10)

RECURSIVE DigitsNat(_)
DigitsNat(ds) ==
    IF ds = <<>> THEN 0
    ELSE 10 * DigitsNat(SubSeq(ds, 1, Len(ds) - 1)) + ds[Len(ds)]

\* The digit string plus one unit in its last place.
RECURSIVE IncDigits(_)
IncDigits(ds) ==
    IF ds = <<>> THEN <<1>>
    ELSE IF ds[Len(ds)] < 9
         THEN [ds EXCEPT ![Len(ds)] = @ + 1]
         ELSE Append(IncDigits(SubSeq(ds, 1, Len(ds) - 1)), 0)

\* Long division: digits of the quotient until it is exact or has DecPrec
\* significant digits; fd counts the fractional digits produced.
RECURSIVE LongDiv(_, _, _, _)
LongDiv(ds, r, t, fd) ==
    IF r = 0 \/ Len(ds) = DecPrec
    THEN [c |-> ds, r |-> r, fd |-> fd]
    ELSE LET d == (10 * r) \div t
         IN  LongDiv(IF ds = <<>> /\ d = 0 THEN ds ELSE Append(ds, d),
                     (10 * r) % t, t, fd + 1)

\* Decimal(s) / Decimal(t) for s, t > 0: coefficient digits c and number of
\* fractional digits fd, rounded half-even to the context precision.
DecDiv(s, t) ==
    LET q == LongDiv(NatDigits(s \div t), s % t, t, 0)
        up == \/ 2 * q.r > t
              \/ 2 * q.r = t /\ q.c[Len(q.c)] % 2 = 1
    IN  [c |-> IF up THEN IncDigits(q.c) ELSE q.c, fd |-> q.fd]

RECURSIVE MulDigits(_, _, _)
MulDigits(ds, p, carry) ==
    IF ds = <<>> THEN NatDigits(carry)
    ELSE LET v == ds[Len(ds)] * p + carry
         IN  Append(MulDigits(SubSeq(ds, 1, Len(ds) - 1), p, v \div 10), v % 10)

AllZero(ds) == \A i \in 1..Len(ds) : ds[i] = 0

\* A result of more than DecPrec digits is rounded half-even to DecPrec.
RoundPrec(x) ==
    IF Len(x.c) <= DecPrec THEN x
    ELSE LET keep == SubSeq(x.c, 1, DecPrec)
             drop == SubSeq(x.c, DecPrec + 1, Len(x.c))
             up == \/ drop[1] > 5
                   \/ drop[1] = 5 /\ ~AllZero(Tail(drop))
                   \/ drop[1] = 5 /\ keep[DecPrec] % 2 = 1
         IN  [c |-> IF up THEN IncDigits(keep) ELSE keep,
              fd |-> x.fd - Len(drop)]

\* Decimal(p) * x for an integer p > 0.
DecMul(p, x) == RoundPrec([c |-> MulDigits(x.c, p, 0), fd |-> x.fd])

RECURSIVE Pow10(_)
Pow10(k) == IF k = 0 THEN 1 ELSE 10 * Pow10(k - 1)

\* x.quantize(Decimal("1"), rounding=ROUND_HALF_UP) as an integer.
QuantizeInt(x) ==
    LET n == Len(x.c) - x.fd
    IN  IF x.fd <= 0 THEN DigitsNat(x.c) * Pow10(-x.fd)
        ELSE IF n < 0 THEN 0
        ELSE DigitsNat(SubSeq(x.c, 1, n)) + (IF x.c[n + 1] >= 5 THEN 1 ELSE 0)

(***************************************************************************)
(* compute_split                                                           *)
(***************************************************************************)
VARIABLES items, selections, tax_rate, tip_rate, pc,
          per_unit, user_order, user_sub, results

\* The Selection table and the POST requests of select_items and
\* invite_select that write it.
VARIABLES rows, next_id, requests, invite_status, last_commit

split_vars == <<items, selections, tax_rate, tip_rate, pc,
                per_unit, user_order, user_sub, results>>

submit_vars == <<rows, next_id, requests, invite_status, last_commit>>

vars == <<split_vars, submit_vars>>

\* The quantum Decimal("0.01"), in 1/Scale units.
Cent == Scale \div 100

\* x.quantize(Decimal("0.01")): no rounding argument, so the context's
\* ROUND_HALF_EVEN applies.
Quantize2(x) == RoundHalfEven(x, Cent) * Cent

\* (a * b).quantize(Decimal("0.01"), rounding=ROUND_HALF_UP) for a product
\* ab of two amounts, which is in 1/Scale^2 units.
QuantizeProduct(ab) == RoundHalfUp(ab, Scale * Cent) * Cent

to_cents(x) == RoundHalfUp(x * 100, Scale)

from_cents(c) == Quantize2(ExactDiv(c * Scale, 100))

\* Decimal(str(i.get("total_price", 0))): prices are held in cents.
PriceOf(i) == i.total_price * Cent

\* i.get("quantity", 1) or 1: a quantity of 0 is replaced by 1.
ItemQty(i) == IF i.quantity = 0 THEN 1 ELSE i.quantity

UnitCost(i) ==
    LET qty == ItemQty(i)
        total_price == PriceOf(i)
    IN  IF qty # 0 THEN ExactDiv(total_price, qty) ELSE 0

\* per_unit[i["id"]] = ...: a later item of the same id overwrites.
PerUnit(its) ==
    [id \in {its[k].id : k \in 1..Len(its)} |->
        UnitCost(its[CHOOSE k \in 1..Len(its) :
                        /\ its[k].id = id
                        /\ \A m \in (k + 1)..Len(its) : its[m].id # id])]

\* UnitOf with a default of one currency unit for an unknown item id.
UnitOfDefaultOne(pu, sel) ==
    IF sel.item_id \in DOMAIN pu THEN pu[sel.item_id] ELSE Scale

\* per_unit.get(sel["item_id"], D("0"))
UnitOf(pu, sel) == IF sel.item_id \in DOMAIN pu THEN pu[sel.item_id] ELSE 0

\* SelQty with a default of 0 for a selection without a quantity.
SelQtyDefaultZero(sel) ==
    IF "quantity_selected" \in DOMAIN sel THEN sel.quantity_selected ELSE 0

\* D(str(sel.get("quantity_selected", 1)))
SelQty(sel) ==
    IF "quantity_selected" \in DOMAIN sel THEN sel.quantity_selected ELSE 1

\* user_sub[sel["user_email"]] += unit * qty on the defaultdict acc: its
\* keys in insertion order and the accumulated raw subtotals.
AddSelection(acc, u, add) ==
    IF u \in DOMAIN acc.sub
    THEN [order |-> acc.order, sub |-> [acc.sub EXCEPT ![u] = @ + add]]
    ELSE [order |-> Append(acc.order, u),
          sub |-> [v \in DOMAIN acc.sub \cup {u} |->
                      IF v = u THEN add ELSE acc.sub[v]]]

\* The defaultdict after the first k selections.
RECURSIVE Accumulate(_, _, _)
Accumulate(pu, sels, k) ==
    IF k = 0 THEN [order |-> <<>>, sub |-> <<>>]
    ELSE AddSelection(Accumulate(pu, sels, k - 1), sels[k].user_email,
                      UnitOf(pu, sels[k]) * SelQty(sels[k]))

\* f[order[1]] + ... + f[order[k]]
RECURSIVE SumFirst(_, _, _)
SumFirst(order, f, k) ==
    IF k = 0 THEN 0 ELSE SumFirst(order, f, k - 1) + f[order[k]]

SumAll(order, f) == SumFirst(order, f, Len(order))

\* IsZeroSubtotal without the early return.
NeverZeroSubtotal(total_sub) == FALSE

\* total_sub == 0
IsZeroSubtotal(total_sub) == total_sub = 0

\* (total_sub * D(str(rate or 0))).quantize(D("0.01"), ROUND_HALF_UP)
PoolTotal(total_sub, rate) == QuantizeProduct(total_sub * rate)

\* to_cents(v.quantize(D("0.01")))
SubCents(v) == to_cents(Quantize2(v))

\* sum(sub_cents.values()) or 1
TotalSubCents(order, sub_cents) ==
    LET s == SumAll(order, sub_cents) IN IF s = 0 THEN 1 ELSE s

\* int((Decimal(pool) * (Decimal(sub) / Decimal(total)))
\*         .quantize(D("1"), rounding=ROUND_HALF_UP))
ShareCents(pool, sub, total) ==
    IF pool = 0 \/ sub = 0 THEN 0
    ELSE Sign(pool) * Sign(sub) * Sign(total)
         * QuantizeInt(DecMul(Abs(pool), DecDiv(Abs(sub), Abs(total))))

\* AllocCents without the residual correction: every user, the last one
\* included, gets the rounded proportional share.
AllocCentsNoResidual(pool, running, sub, total, is_last) ==
    ShareCents(pool, sub, total)

\* One pass of the allocation loop: the residual for the last user, the
\* rounded proportional share for every other.
AllocCents(pool, running, sub, total, is_last) ==
    IF is_last THEN pool - running ELSE ShareCents(pool, sub, total)

\* One pass for user u, whose share is c.
AllocStep(prev, u, c, is_last) ==
    [alloc |-> [v \in DOMAIN prev.alloc \cup {u} |->
                   IF v = u THEN c ELSE prev.alloc[v]],
     running |-> IF is_last THEN prev.running ELSE prev.running + c]

AllocPass(prev, pool, u, sub, total, is_last) ==
    AllocStep(prev, u, AllocCents(pool, prev.running, sub, total, is_last),
              is_last)

\* The allocation after the first k passes of the loop.
RECURSIVE AllocLoop(_, _, _, _, _)
AllocLoop(pool, order, sub_cents, total, k) ==
    IF k = 0 THEN [alloc |-> <<>>, running |-> 0]
    ELSE AllocPass(AllocLoop(pool, order, sub_cents, total, k - 1), pool,
                   order[k], sub_cents[order[k]], total, k = Len(order))

Allocate(pool, order, sub_cents, total) ==
    AllocLoop(pool, order, sub_cents, total, Len(order)).alloc

\* UserTotal with the tip left out of the sum.
UserTotalNoTip(subtotal, tax, tip) == Quantize2(subtotal + tax)

\* (subtotal + tax + tip).quantize(D("0.01"))
UserTotal(subtotal, tax, tip) == Quantize2(subtotal + tax + tip)

\* results[u] = {"subtotal": ..., "tax": ..., "tip": ..., "total": ...}
UserShare(subtotal, tax, tip) ==
    [subtotal |-> subtotal, tax |-> tax, tip |-> tip,
     total |-> UserTotal(subtotal, tax, tip)]

EmptyMapping == <<>>

\* The locals at a return and the returned mapping.
Return(pu, acc, res) ==
    [per_unit |-> pu, user_order |-> acc.order, user_sub |-> acc.sub,
     results |-> res]

\* "Build final results"
BuildResults(pu, acc, sub_cents, tax_alloc, tip_alloc) ==
    Return(pu, acc,
           [u \in DOMAIN acc.sub |->
               UserShare(from_cents(sub_cents[u]), from_cents(tax_alloc[u]),
                         from_cents(tip_alloc[u]))])

\* "Proportional allocation in cents"
AllocateBoth(pu, acc, sub_cents, total, tax_cents, tip_cents) ==
    BuildResults(pu, acc, sub_cents,
                 Allocate(tax_cents, acc.order, sub_cents, total),
                 Allocate(tip_cents, acc.order, sub_cents, total))

\* "Subtotals to cents"
SplitCents(pu, acc, sub_cents, tax_total, tip_total) ==
    AllocateBoth(pu, acc, sub_cents, TotalSubCents(acc.order, sub_cents),
                 to_cents(tax_total), to_cents(tip_total))

\* "Compute tax and tip based on subtotal"
SplitTotal(pu, acc, total_sub, tax, tip) ==
    IF IsZeroSubtotal(total_sub)
    THEN Return(pu, acc, EmptyMapping)
    ELSE SplitCents(pu, acc, [u \in DOMAIN acc.sub |-> SubCents(acc.sub[u])],
                    PoolTotal(total_sub, tax), PoolTotal(total_sub, tip))

\* "Accumulate per-user subtotals"
SplitSelections(pu, acc, tax, tip) ==
    SplitTotal(pu, acc, SumAll(acc.order, acc.sub), tax, tip)

\* The whole call.
compute_split(its, sels, tax, tip) ==
    IF its = <<>>
    THEN Return(<<>>, [order |-> <<>>, sub |-> <<>>], EmptyMapping)
    ELSE SplitSelections(PerUnit(its),
                         Accumulate(PerUnit(its), sels, Len(sels)), tax, tip)

(***************************************************************************)
(* The arguments of one call                                               *)
(***************************************************************************)
\* Item lists whose ids are 1, 2, ... in list order.
ItemLists(kinds, lens) ==
    {[k \in 1..Len(f) |->
        [id |-> k, total_price |-> f[k][1], quantity |-> f[k][2]]] :
        f \in UNION {[1..m -> kinds] : m \in lens}}

InOrderOfNames(sels) ==
    \A k \in 1..Len(sels) : \A j \in 1..Len(UserNames) :
        (UserNames[j] = sels[k].user_email) =>
            \A i \in 1..(j - 1) : \E m \in 1..(k - 1) :
                sels[m].user_email = UserNames[i]

SelLists(opts) ==
    {s \in UNION {[1..n -> opts] : n \in 0..MaxSels} : InOrderOfNames(s)}

UserSet == {UserNames[j] : j \in 1..Len(UserNames)}

PlainSels ==
    {[user_email |-> u, item_id |-> k[1], quantity_selected |-> k[2]] :
        u \in UserSet, k \in PlainSelKinds}

OddSels ==
    {[user_email |-> u, item_id |-> i, quantity_selected |-> q] :
        u \in UserSet, i \in {1, 2}, q \in OddSelQtys}
    \cup {[user_email |-> u, item_id |-> i] : u \in UserSet, i \in {1, 2}}

PlainItemLists == ItemLists(PlainItemKinds, {1, 2})
PlainSelLists == SelLists(PlainSels)
OddItemLists == ItemLists(OddItemKinds, {0, 1})
OddSelLists == SelLists(OddSels)

PlainCalls ==
    /\ items \in PlainItemLists
    /\ selections \in PlainSelLists
    /\ \E r \in PlainRatePairs : tax_rate = r[1] /\ tip_rate = r[2]

OddCalls ==
    /\ items \in OddItemLists
    /\ selections \in OddSelLists
    /\ \E r \in OddRatePairs : tax_rate = r[1] /\ tip_rate = r[2]

(***************************************************************************)
(* select_items and invite_select: the Selection rows of one receipt       *)
(***************************************************************************)
\* request.user.email of the receipt's owner, the only user select_items
\* serves.
OwnerEmail == "a"

\* The tokens of the receipt's Invite rows and the invitee_email of each; an
\* invite may carry the owner's own address.
Tokens == {"t1", "t2"}

InviteeEmail(token) == IF token = "t1" THEN "b" ELSE OwnerEmail

Emails == {OwnerEmail} \cup {InviteeEmail(t) : t \in Tokens}

\* r.items.all().order_by("id"), as item ids.
ReceiptItems == <<1, 2>>

\* The posted forms, as the values of qty_1 and qty_2: two units of item 1
\* and no qty_2 field; a blank and two units of item 2; nothing selected; a
\* value that is no number.
Forms == {<<"2">>, <<"", "2">>, <<"-1", "">>, <<"2", "x">>}

\* request.POST.get(f"qty_{it.id}", "0") or "0"
PostGet(form, it) ==
    LET posted == IF it \in DOMAIN form THEN form[it] ELSE "0"
    IN  IF posted = "" THEN "0" ELSE posted

\* int(s) raises ValueError on a string that is no integer literal.
IsIntLiteral(s) == s \in {"0", "-1", "2"}

ParseInt(s) == IF s = "2" THEN 2 ELSE IF s = "-1" THEN -1 ELSE 0

\* A request that has entered its view with a POST.
NewRequest(view, token, email, form) ==
    [view |-> view, token |-> token, email |-> email, form |-> form,
     at |-> "enter", snapshot |-> {}, deleted |-> {}, created |-> {},
     pos |-> 1]

\* The request is inside transaction.atomic() and has run its DELETE: it
\* holds the locks of the rows it deleted until it commits or rolls back.
InTransaction(q) == q.at \in {"loop", "save", "commit"}

NoSubmission == [seen |-> FALSE, form |-> <<>>]

EmptyTable ==
    /\ rows = {}
    /\ next_id = 1
    /\ requests = <<>>
    /\ invite_status = [t \in Tokens |-> "pending"]
    /\ last_commit = [e \in Emails |-> NoSubmission]

\* select_items, POST: get_object_or_404 finds the owner's receipt.
PostSelectItems ==
    /\ Len(requests) < MaxSubmits
    /\ \E form \in Forms :
          requests' = Append(requests,
                             NewRequest("select_items", "", OwnerEmail, form))
    /\ UNCHANGED <<rows, next_id, invite_status, last_commit>>
    /\ UNCHANGED split_vars

\* invite_select, POST: get_object_or_404 finds the invite of the token.
PostInviteSelect ==
    /\ Len(requests) < MaxSubmits
    /\ \E token \in Tokens, form \in Forms :
          requests' = Append(requests,
                             NewRequest("invite_select", token,
                                        InviteeEmail(token), form))
    /\ UNCHANGED <<rows, next_id, invite_status, last_commit>>
    /\ UNCHANGED split_vars

\* Selection.objects.filter(receipt=r, user_email=email).delete() starts:
\* under READ COMMITTED the statement sees the rows committed by now.
DeleteSnapshot(i) ==
    /\ requests[i].at = "enter"
    /\ requests' = [requests EXCEPT
          ![i].at = "delete",
          ![i].snapshot =
              {r.id : r \in {x \in rows : x.user_email = requests[i].email}}]
    /\ UNCHANGED <<rows, next_id, invite_status, last_commit>>
    /\ UNCHANGED split_vars

\* The DELETE finishes: it waits while another open transaction holds the
\* lock of a row it saw, then deletes the rows it saw that still exist.  Rows
\* committed after the statement began are not seen.
DeleteRows(i) ==
    /\ requests[i].at = "delete"
    /\ \A j \in 1..Len(requests) :
          (j # i /\ InTransaction(requests[j])) =>
              requests[j].deleted \cap requests[i].snapshot = {}
    /\ requests' = [requests EXCEPT
          ![i].at = "loop",
          ![i].deleted = requests[i].snapshot \cap {r.id : r \in rows}]
    /\ UNCHANGED <<rows, next_id, invite_status, last_commit>>
    /\ UNCHANGED split_vars

\* Where the request goes when the loop over the items is over.
AfterLoop(q) == IF q.view = "invite_select" THEN "save" ELSE "commit"

\* One turn of `for it in items`: the row is created when qty > 0.
CreateSelection(i) ==
    LET q == requests[i]
        it == ReceiptItems[q.pos]
        posted == PostGet(q.form, it)
        qty == ParseInt(posted)
        row == [id |-> next_id, item |-> it, user_email |-> q.email,
                quantity_selected |-> qty]
    IN  /\ q.at = "loop"
        /\ IsIntLiteral(posted)
        /\ requests' = [requests EXCEPT
              ![i].created = IF qty > 0 THEN q.created \cup {row}
                             ELSE q.created,
              ![i].pos = q.pos + 1,
              ![i].at = IF q.pos = Len(ReceiptItems) THEN AfterLoop(q)
                        ELSE "loop"]
        /\ next_id' = IF qty > 0 THEN next_id + 1 ELSE next_id
        /\ UNCHANGED <<rows, invite_status, last_commit>>
        /\ UNCHANGED split_vars

\* int() raises ValueError inside the atomic block: the transaction is
\* rolled back and the request fails.
RollBack(i) ==
    LET q == requests[i]
    IN  /\ q.at = "loop"
        /\ ~IsIntLiteral(PostGet(q.form, ReceiptItems[q.pos]))
        /\ requests' = [requests EXCEPT ![i].at = "error"]
        /\ UNCHANGED <<rows, next_id, invite_status, last_commit>>
        /\ UNCHANGED split_vars

\* inv.save(update_fields=["status"]): the UPDATE waits while another open
\* transaction has updated the same Invite row.
SaveInvite(i) ==
    /\ requests[i].at = "save"
    /\ \A j \in 1..Len(requests) :
          (j # i /\ requests[j].view = "invite_select"
                 /\ requests[j].at = "commit") =>
              requests[j].token # requests[i].token
    /\ requests' = [requests EXCEPT ![i].at = "commit"]
    /\ UNCHANGED <<rows, next_id, invite_status, last_commit>>
    /\ UNCHANGED split_vars

\* The atomic block exits: the deletions, the new rows and the invite's
\* status become visible together.
Commit(i) ==
    LET q == requests[i]
    IN  /\ q.at = "commit"
        /\ rows' = {r \in rows : r.id \notin q.deleted} \cup q.created
        /\ invite_status' =
              IF q.view = "invite_select"
              THEN [invite_status EXCEPT ![q.token] = "accepted"]
              ELSE invite_status
        /\ last_commit' =
              [last_commit EXCEPT ![q.email] = [seen |-> TRUE, form |-> q.form]]
        /\ requests' = [requests EXCEPT ![i].at = "done"]
        /\ UNCHANGED next_id
        /\ UNCHANGED split_vars

(***************************************************************************)
(* Specifications                                                          *)
(***************************************************************************)
Init ==
    /\ PlainCalls \/ OddCalls
    /\ pc = "call"
    /\ per_unit = <<>>
    /\ user_order = <<>>
    /\ user_sub = <<>>
    /\ results = EmptyMapping
    /\ EmptyTable

ComputeSplit ==
    /\ pc = "call"
    /\ \E r \in {compute_split(items, selections, tax_rate, tip_rate)} :
           /\ per_unit' = r.per_unit
           /\ user_order' = r.user_order
           /\ user_sub' = r.user_sub
           /\ results' = r.results
    /\ pc' = "done"
    /\ UNCHANGED <<items, selections, tax_rate, tip_rate>>
    /\ UNCHANGED submit_vars

Next == ComputeSplit

Spec == Init /\ [][Next]_vars

\* The selection forms alone: no split is computed.
SubmitInit ==
    /\ items = <<>>
    /\ selections = <<>>
    /\ tax_rate = 0
    /\ tip_rate = 0
    /\ pc = "idle"
    /\ per_unit = <<>>
    /\ user_order = <<>>
    /\ user_sub = <<>>
    /\ results = EmptyMapping
    /\ EmptyTable

SubmitNext ==
    \/ PostSelectItems
    \/ PostInviteSelect
    \/ \E i \in 1..Len(requests) : DeleteSnapshot(i)
    \/ \E i \in 1..Len(requests) : DeleteRows(i)
    \/ \E i \in 1..Len(requests) : CreateSelection(i)
    \/ \E i \in 1..Len(requests) : RollBack(i)
    \/ \E i \in 1..Len(requests) : SaveInvite(i)
    \/ \E i \in 1..Len(requests) : Commit(i)

SpecSubmit == SubmitInit /\ [][SubmitNext]_vars

(***************************************************************************)
(* Properties of the returned mapping                                      *)
(***************************************************************************)
Done == pc = "done"

\* The exact (unrounded) sum of the per-user raw subtotals.
TotalSubtotal == SumAll(user_order, user_sub)

TaxSum == SumAll(user_order, [u \in DOMAIN results |-> results[u].tax])
TipSum == SumAll(user_order, [u \in DOMAIN results |-> results[u].tip])
SubtotalSum == SumAll(user_order, [u \in DOMAIN results |-> results[u].subtotal])
TotalSum == SumAll(user_order, [u \in DOMAIN results |-> results[u].total])

\* round_half_up(total_subtotal * rate, 2dp), as an amount.
RoundedPool(rate) == RoundHalfUp(TotalSubtotal * rate, Scale * Cent) * Cent

\* The reported subtotals in cents and their sum as the allocation uses it.
ReportedCents == [u \in DOMAIN results |-> to_cents(results[u].subtotal)]

ReportedTotalCents == TotalSubCents(user_order, ReportedCents)

\* What the users would get in all from a pool of pool_cents if each got
\* the rounded proportional share.
ProportionalSum(pool_cents) ==
    SumAll(user_order,
           [u \in DOMAIN results |->
               ShareCents(pool_cents, ReportedCents[u], ReportedTotalCents)])

\* C1: whenever compute_split returns a non-empty mapping, the per-user tax
\* shares sum to round_half_up(total_subtotal * tax_rate, 2dp) exactly and
\* the per-user tip shares to round_half_up(total_subtotal * tip_rate, 2dp),
\* total_subtotal being the exact sum of the raw subtotals.
C1_PoolSumsExact ==
    (Done /\ results # EmptyMapping) =>
        /\ TaxSum = RoundedPool(tax_rate)
        /\ TipSum = RoundedPool(tip_rate)

\* Three users, both pools positive, and proportional rounding alone would
\* not have summed to the tax pool.
C1_Witness ==
    /\ Done
    /\ results # EmptyMapping
    /\ Len(user_order) = 3
    /\ TaxSum > 0
    /\ TipSum > 0
    /\ ProportionalSum(to_cents(TaxSum)) # to_cents(TaxSum)

\* round(total_subtotal, 2), under either rule for an exact half cent.
RoundedSubtotals ==
    {RoundHalfUp(TotalSubtotal, Cent) * Cent,
     RoundHalfEven(TotalSubtotal, Cent) * Cent}

\* C2: conservation: the per-user totals sum to round(total_subtotal, 2) +
\* round(total_subtotal * tax_rate, 2) + round(total_subtotal * tip_rate, 2),
\* and the per-user subtotals to the cost of the selected units.
C2_Conservation ==
    (Done /\ results # EmptyMapping) =>
        \E rounded \in RoundedSubtotals :
            /\ TotalSum = rounded + RoundedPool(tax_rate) + RoundedPool(tip_rate)
            /\ SubtotalSum = rounded

\* C3: for every user of the returned mapping, total = subtotal + tax + tip
\* on the reported two-decimal values.
C3_TotalIsSum ==
    Done => \A u \in DOMAIN results :
                results[u].total =
                    results[u].subtotal + results[u].tax + results[u].tip

\* Some user has a non-zero subtotal, tax and tip.
C3_Witness ==
    /\ Done
    /\ \E u \in DOMAIN results :
          /\ results[u].subtotal # 0
          /\ results[u].tax # 0
          /\ results[u].tip # 0

\* Every selection references an item of the list whose price is zero.
AllSelectionsZeroPrice ==
    \A k \in 1..Len(selections) : \E i \in 1..Len(items) :
        /\ items[i].id = selections[k].item_id
        /\ items[i].total_price = 0

\* C4: compute_split returns the empty mapping whenever the total subtotal
\* is zero: items empty, no selections, or only zero-price items selected.
C4_ZeroSubtotalEmpty ==
    (/\ Done
     /\ \/ items = <<>>
        \/ selections = <<>>
        \/ AllSelectionsZeroPrice
        \/ TotalSubtotal = 0)
    => results = EmptyMapping

\* Selections of a zero-price item by two users: the early return is taken
\* with users in the accumulator.
C4_Witness ==
    /\ Done
    /\ items # <<>>
    /\ Len(user_order) >= 2
    /\ AllSelectionsZeroPrice
    /\ results = EmptyMapping

\* The selection references an item of the list whose quantity is q.
SelectsItemOfQty(sel, q) ==
    \E i \in 1..Len(items) :
        items[i].id = sel.item_id /\ items[i].quantity = q

\* The unit cost the call used for a selection.
UnitUsed(sel) ==
    IF sel.item_id \in DOMAIN per_unit THEN per_unit[sel.item_id] ELSE 0

\* C5: an item whose quantity is 0 gets unit_cost = 0, so that a selection
\* of it adds nothing to a subtotal whatever its total_price.
C5_ZeroQuantityUnitCost ==
    (Done /\ items # <<>>) =>
        \A k \in 1..Len(selections) :
            SelectsItemOfQty(selections[k], 0) => UnitUsed(selections[k]) = 0

HasQty(sel) == "quantity_selected" \in DOMAIN sel

\* The selected quantity, a selection without one counting as absent_as.
QtyOr(sel, absent_as) ==
    IF HasQty(sel) THEN sel.quantity_selected ELSE absent_as

\* What the first k selections add to user u's subtotal when a selection of
\* quantity zero adds nothing and one without a quantity counts as absent_as.
RECURSIVE SubtotalOf(_, _, _)
SubtotalOf(u, k, absent_as) ==
    IF k = 0 THEN 0
    ELSE SubtotalOf(u, k - 1, absent_as)
         + (IF selections[k].user_email = u /\ QtyOr(selections[k], absent_as) # 0
            THEN UnitUsed(selections[k]) * QtyOr(selections[k], absent_as)
            ELSE 0)

\* C6 as stated: a selection whose quantity_selected is zero or absent is
\* treated as quantity zero and adds nothing to the user's subtotal.
C6_ZeroOrAbsentAddsNothing ==
    (Done /\ items # <<>>) =>
        \A u \in DOMAIN user_sub :
            user_sub[u] = SubtotalOf(u, Len(selections), 0)

\* C6 as amended: a selection whose quantity_selected is zero adds nothing
\* to the user's subtotal; one whose quantity_selected is absent is treated
\* as quantity 1 and adds one unit cost.
C6_ZeroAddsNothingAbsentIsOne ==
    (Done /\ items # <<>>) =>
        \A u \in DOMAIN user_sub :
            user_sub[u] = SubtotalOf(u, Len(selections), 1)

\* A selection without a quantity, of an item with a non-zero unit cost, in
\* a call that returned shares.
C6_Witness ==
    /\ Done
    /\ results # EmptyMapping
    /\ \E k \in 1..Len(selections) :
          ~HasQty(selections[k]) /\ UnitUsed(selections[k]) # 0

UnknownItem(sel) == \A i \in 1..Len(items) : items[i].id # sel.item_id

\* The selections with the k-th one given the quantity 0.
WithQtyZero(k) ==
    [selections EXCEPT ![k] =
        [user_email |-> @.user_email, item_id |-> @.item_id,
         quantity_selected |-> 0]]

\* What the selections other than the k-th add to user u's subtotal.
RECURSIVE SubtotalWithout(_, _, _)
SubtotalWithout(u, k, n) ==
    IF n = 0 THEN 0
    ELSE SubtotalWithout(u, k, n - 1)
         + (IF n # k /\ selections[n].user_email = u
            THEN UnitUsed(selections[n]) * QtyOr(selections[n], 1)
            ELSE 0)

\* C7: a selection whose item_id matches no item adds exactly zero to its
\* user's subtotal, and every share is what it would be had that selection
\* the quantity 0.
C7_UnknownItemAddsNothing ==
    Done =>
        \A k \in 1..Len(selections) :
            UnknownItem(selections[k]) =>
                /\ \A u \in DOMAIN user_sub :
                      user_sub[u] = SubtotalWithout(u, k, Len(selections))
                /\ compute_split(items, WithQtyZero(k), tax_rate, tip_rate).results
                      = results

\* A selection of an unknown item, with a non-zero quantity, in a call that
\* returned shares.
C7_Witness ==
    /\ Done
    /\ results # EmptyMapping
    /\ \E k \in 1..Len(selections) :
          UnknownItem(selections[k]) /\ QtyOr(selections[k], 1) # 0

\* The selection has a negative quantity or is of an item that has one.
NegativeQty(sel) ==
    \/ QtyOr(sel, 1) < 0
    \/ \E i \in 1..Len(items) :
          items[i].id = sel.item_id /\ items[i].quantity < 0

\* What the first k selections add to user u's subtotal when those with a
\* negative quantity add nothing.
RECURSIVE SubtotalNonNegative(_, _)
SubtotalNonNegative(u, k) ==
    IF k = 0 THEN 0
    ELSE SubtotalNonNegative(u, k - 1)
         + (IF selections[k].user_email = u /\ ~NegativeQty(selections[k])
            THEN UnitUsed(selections[k]) * QtyOr(selections[k], 1)
            ELSE 0)

\* C8: negative quantities (selected, or of an item) are resolved as zero
\* contribution: they change no user's subtotal, and no subtotal is made
\* negative by them.
C8_NegativeQtyAddsNothing ==
    (Done /\ items # <<>>) =>
        \A u \in DOMAIN user_sub :
            /\ user_sub[u] = SubtotalNonNegative(u, Len(selections))
            /\ user_sub[u] >= 0

\* The users of the first k selections, in order of first appearance.
RECURSIVE FirstAppearance(_)
FirstAppearance(k) ==
    IF k = 0 THEN <<>>
    ELSE IF \E m \in 1..(k - 1) :
                selections[m].user_email = selections[k].user_email
         THEN FirstAppearance(k - 1)
         ELSE Append(FirstAppearance(k - 1), selections[k].user_email)

\* round_half_up(pool_cents * sub_cents / total_cents) in exact arithmetic.
ExactShare(pool_cents, sub_cents, total_cents) ==
    RoundHalfUp(pool_cents * sub_cents * Sign(total_cents), Abs(total_cents))

\* The cents of one pool as the returned mapping gives them: every user but
\* the last has the exact rounded proportional share, the last the rest.
ProportionalThenResidual(pool_cents, share_cents) ==
    /\ \A i \in 1..(Len(user_order) - 1) :
          share_cents[user_order[i]] =
              ExactShare(pool_cents, ReportedCents[user_order[i]],
                         ReportedTotalCents)
    /\ share_cents[user_order[Len(user_order)]] =
          pool_cents - SumFirst(user_order, share_cents, Len(user_order) - 1)

\* C9: users are taken in order of first appearance in selections; for the
\* tax pool and for the tip pool, every user but the last receives
\* round_half_up(pool_cents * user_subtotal_cents / total_subtotal_cents)
\* and the last user receives pool_cents minus what the earlier users got.
C9_ProportionalThenResidual ==
    (Done /\ results # EmptyMapping) =>
        /\ user_order = FirstAppearance(Len(selections))
        /\ ProportionalThenResidual(
              to_cents(RoundedPool(tax_rate)),
              [u \in DOMAIN results |-> to_cents(results[u].tax)])
        /\ ProportionalThenResidual(
              to_cents(RoundedPool(tip_rate)),
              [u \in DOMAIN results |-> to_cents(results[u].tip)])

\* C10: every reported subtotal is the user's raw subtotal rounded to two
\* decimals half-up, an exact half cent going away from zero.
C10_SubtotalRoundedHalfUp ==
    (Done /\ results # EmptyMapping) =>
        \A u \in DOMAIN results :
            results[u].subtotal = RoundHalfUp(user_sub[u], Cent) * Cent

\* The call's inputs have no negative price, only positive item quantities,
\* no negative selected quantity and no negative rate.
NonNegativeInputs ==
    /\ \A i \in 1..Len(items) :
          items[i].total_price >= 0 /\ items[i].quantity > 0
    /\ \A k \in 1..Len(selections) : QtyOr(selections[k], 1) >= 0
    /\ tax_rate >= 0
    /\ tip_rate >= 0

\* C11: for inputs without negative prices, quantities or rates and with
\* positive item quantities, every user's tax share and tip share is at
\* least 0 and at most the pool's total; the residual of the last user is
\* never negative, even when that user's subtotal is zero.
C11_SharesWithinPool ==
    (Done /\ results # EmptyMapping /\ NonNegativeInputs) =>
        \A u \in DOMAIN results :
            /\ 0 <= results[u].tax
            /\ results[u].tax <= RoundedPool(tax_rate)
            /\ 0 <= results[u].tip
            /\ results[u].tip <= RoundedPool(tip_rate)

(***************************************************************************)
(* Properties of the stored selections                                     *)
(***************************************************************************)
\* The Selection rows stored for user e.
RowsOf(e) == {r \in rows : r.user_email = e}

\* The items of a submitted form with a quantity > 0, each with its quantity.
Submitted(form) ==
    {<<ReceiptItems[n], ParseInt(PostGet(form, ReceiptItems[n]))>> :
        n \in {m \in 1..Len(ReceiptItems) :
                  ParseInt(PostGet(form, ReceiptItems[m])) > 0}}

\* The rows of every user who has a committed submission are the items of
\* the latest one with a quantity > 0, one row for each.
StoredIsLastCommitted ==
    \A e \in Emails :
        last_commit[e].seen =>
            /\ {<<r.item, r.quantity_selected>> : r \in RowsOf(e)}
                  = Submitted(last_commit[e].form)
            /\ \A r1, r2 \in RowsOf(e) : r1.item = r2.item => r1 = r2

\* A step changes the table only by committing a submission, and then only
\* the rows of the submitter.
OthersUntouched ==
    \/ rows' = rows
    \/ \E i \in 1..Len(requests) :
          /\ requests[i].at = "commit"
          /\ requests'[i].at = "done"
          /\ \A e \in Emails \ {requests[i].email} : RowsOf(e)' = RowsOf(e)

\* C12: each submit overwrites the submitter's earlier selections: after any
\* sequence or interleaving of POSTs to select_items and invite_select the
\* rows stored for a user are exactly the items with quantity > 0 of that
\* user's most recently committed submission, at most one row per item, and
\* a submission changes no other user's rows.
C12_SubmitOverwrites ==
    /\ []StoredIsLastCommitted
    /\ [][OthersUntouched]_vars

====
